---- MODULE Spec2Model ----
(***************************************************************************)
(* Job lifecycle of the ScholarSource backend.                             *)
(*                                                                         *)
(* backend/main.py        : the HTTP handlers submit_job, get_job_status,  *)
(*                          get_shareable_results                          *)
(* backend/email_service.py : send_results_email, the completion notifier  *)
(* backend/jobs.py, backend/crew_runner.py are imported by main.py but are *)
(* not among the sources; create_job, get_job, update_job_status,          *)
(* validate_crew_inputs and the background unit started by run_crew_async  *)
(* are modelled from sections 3, 4, 5 and 7 of the specification.          *)
(***************************************************************************)
EXTENDS Integers, Sequences, FiniteSets, TLC

(* ---------------- bounds ---------------- *)
\* number of job records the store may come to hold
MaxJobs == 2
\* longest result list the discovery engine returns
MaxResults == 1

(* ---------------- values ---------------- *)
None == "None"
NoTime == 0
\* the absent result list: no list of the engine equals it, its records are numbered from 1
NoResults == << 0 >>
nobody == 0

Ids == 1..(MaxJobs + 1)

\* the submitted parameter sets tried: each is the set of fields given a value
InputSets == { {}, {"book_title"}, {"book_title", "book_author"} }

Titles == {"Algorithms Resources"}
RawOutputs == {"raw"}

\* the result lists tried: one of each length, its resource records numbered in order
ResultLists == { [i \in 1..n |-> i] : n \in 0..MaxResults }

\* what the discovery engine hands back on success: (title, results, raw_output)
EngineOutputs == [title : Titles, results : ResultLists, raw_output : RawOutputs]
NoOutput == [title |-> None, results |-> NoResults, raw_output |-> None]

NoJob == [id |-> nobody]

VARIABLES
    store,          \* the jobs table: id -> Job Record, or NoJob
    nextId,         \* the id the next create_job assigns
    now,            \* id -> the clock as the next write of the record of id reads it:
                    \* later at every reading; readings taken for different
                    \* records are never compared, so they are counted per record
    bg,             \* id -> position of the job's background unit
    engineOut,      \* id -> what the engine returned to the unit (NoOutput before)
    fault,          \* id -> the fault description the unit has caught (None before)
    dispatched,     \* id -> number of run_crew_async calls made for the id
    notified,       \* id -> number of calls of send_results_email for the id
    sent,           \* id -> number of resend.Emails.send calls for the id
    notifyResult,   \* id -> what send_results_email returned ("none" before)
    http,           \* the submission being answered, and the one just answered
    resp,           \* the HTTP response sent by the step just taken
    trail,          \* id -> the statuses the record has gone through, in order
    _logging_configured,  \* logging_config.py: the module's global flag
    root,           \* what logging.basicConfig last installed on the root logger
    caller,         \* thread -> its call into logging_config.py, and how far it got
    debugUsed,      \* whether set_debug_mode was ever called
    logEvent        \* what the logging step just taken did

jobVars == << store, nextId, now, bg, engineOut, fault, dispatched, notified, sent,
              notifyResult, http, resp, trail >>

logVars == << _logging_configured, root, caller, debugUsed, logEvent >>

vars == << store, nextId, now, bg, engineOut, fault, dispatched, notified, sent,
           notifyResult, http, resp, trail,
           _logging_configured, root, caller, debugUsed, logEvent >>

(* ---------------- the Job Record and the store (spec sections 3, 4.5) ---------------- *)
Statuses == {"pending", "running", "completed", "failed"}
Terminal == {"completed", "failed"}

\* Input Validator, section 4.1: at least one complete input group
validate_crew_inputs(inputs) ==
    \/ inputs \cap {"course_name", "university_name", "course_url"} # {}
    \/ {"book_title", "book_author"} \subseteq inputs
    \/ "isbn" \in inputs
    \/ "book_pdf_path" \in inputs
    \/ "book_url" \in inputs

\* create: the record built for a fresh id, status pending, created_at = now
create_job(id, inputs, t) ==
    [ id             |-> id,
      status         |-> "pending",
      inputs         |-> inputs,
      status_message |-> None,
      search_title   |-> None,
      results        |-> NoResults,
      raw_output     |-> None,
      error          |-> None,
      metadata       |-> None,
      created_at     |-> t,
      completed_at   |-> NoTime ]

\* get: point lookup by id, the record or absent
get_job(id) == store[id]

\* execute, first write: the record moves to running, with a progress note
MarkedRunning(job) ==
    [job EXCEPT !.status = "running", !.status_message = "running"]

\* execute, on engine success
MarkedCompleted(job, out, t) ==
    [job EXCEPT !.status = "completed",
                !.search_title = out.title,
                !.results = out.results,
                !.raw_output = out.raw_output,
                !.completed_at = t]

\* execute, on a fault
MarkedFailed(job, description, t) ==
    [job EXCEPT !.status = "failed",
                !.error = description,
                !.completed_at = t]

\* put: a single atomic replacement of the record of one id
put(id, job) == [store EXCEPT ![id] = job]

Walked(id, job) ==
    IF trail[id] # <<>> /\ trail[id][Len(trail[id])] = job.status
    THEN trail
    ELSE [trail EXCEPT ![id] = Append(@, job.status)]

(* ---------------- backend/email_service.py ---------------- *)
Deliveries == {"ok", "build_error", "send_error"}

\* send_results_email sending a second time after a failed send
send_results_email_retry(key, delivery) ==
    IF ~key
    THEN [returned |-> FALSE, sends |-> 0, raised |-> FALSE]
    ELSE IF delivery = "build_error"
    THEN [returned |-> FALSE, sends |-> 0, raised |-> FALSE]
    ELSE IF delivery = "send_error"
    THEN [returned |-> FALSE, sends |-> 2, raised |-> FALSE]
    ELSE [returned |-> TRUE, sends |-> 1, raised |-> FALSE]

\* send_results_email without its except clause: a delivery error leaves it
send_results_email_raises(key, delivery) ==
    IF ~key
    THEN [returned |-> FALSE, sends |-> 0, raised |-> FALSE]
    ELSE IF delivery = "build_error"
    THEN [returned |-> FALSE, sends |-> 0, raised |-> TRUE]
    ELSE IF delivery = "send_error"
    THEN [returned |-> FALSE, sends |-> 1, raised |-> TRUE]
    ELSE [returned |-> TRUE, sends |-> 1, raised |-> FALSE]

\* send_results_email whose except clause misses the error of the send call
send_results_email_leaks(key, delivery) ==
    IF ~key
    THEN [returned |-> FALSE, sends |-> 0, raised |-> FALSE]
    ELSE IF delivery = "build_error"
    THEN [returned |-> FALSE, sends |-> 0, raised |-> FALSE]
    ELSE IF delivery = "send_error"
    THEN [returned |-> FALSE, sends |-> 1, raised |-> TRUE]
    ELSE [returned |-> TRUE, sends |-> 1, raised |-> FALSE]

\* send_results_email without the check of the API key: the send is attempted
\* and refused
send_results_email_no_key_check(key, delivery) ==
    IF delivery = "build_error"
    THEN [returned |-> FALSE, sends |-> 0, raised |-> FALSE]
    ELSE IF delivery = "send_error" \/ ~key
    THEN [returned |-> FALSE, sends |-> 1, raised |-> FALSE]
    ELSE [returned |-> TRUE, sends |-> 1, raised |-> FALSE]

\* send_results_email: what it returns, how often it called resend.Emails.send,
\* and whether an exception left it. key is whether os.getenv("RESEND_API_KEY")
\* gave a value, read at every call; delivery is what building and sending do.
send_results_email(key, delivery) ==
    IF ~key
    THEN [returned |-> FALSE, sends |-> 0, raised |-> FALSE]
    ELSE IF delivery = "build_error"
    THEN [returned |-> FALSE, sends |-> 0, raised |-> FALSE]
    ELSE IF delivery = "send_error"
    THEN [returned |-> FALSE, sends |-> 1, raised |-> FALSE]
    ELSE [returned |-> TRUE, sends |-> 1, raised |-> FALSE]

(* ---------------- backend/main.py ---------------- *)
NoBody == [status |-> None]

\* JobProjection with completed_at read from the wrong column
JobProjection_stamped(job) ==
    [ job_id         |-> job.id,
      status         |-> job.status,
      status_message |-> job.status_message,
      search_title   |-> job.search_title,
      results        |-> job.results,
      raw_output     |-> job.raw_output,
      error          |-> job.error,
      metadata       |-> job.metadata,
      created_at     |-> job.created_at,
      completed_at   |-> job.created_at ]

\* JobProjection leaving the error column out
JobProjection_error_dropped(job) ==
    [ job_id         |-> job.id,
      status         |-> job.status,
      status_message |-> job.status_message,
      search_title   |-> job.search_title,
      results        |-> job.results,
      raw_output     |-> job.raw_output,
      error          |-> None,
      metadata       |-> job.metadata,
      created_at     |-> job.created_at,
      completed_at   |-> job.completed_at ]

\* JobProjection with status read from the progress note
JobProjection_status_from_message(job) ==
    [ job_id         |-> job.id,
      status         |-> job.status_message,
      status_message |-> job.status_message,
      search_title   |-> job.search_title,
      results        |-> job.results,
      raw_output     |-> job.raw_output,
      error          |-> job.error,
      metadata       |-> job.metadata,
      created_at     |-> job.created_at,
      completed_at   |-> job.completed_at ]

\* JobProjection with the status literal of the submit response
JobProjection_pending(job) ==
    [ job_id         |-> job.id,
      status         |-> "pending",
      status_message |-> job.status_message,
      search_title   |-> job.search_title,
      results        |-> job.results,
      raw_output     |-> job.raw_output,
      error          |-> job.error,
      metadata       |-> job.metadata,
      created_at     |-> job.created_at,
      completed_at   |-> job.completed_at ]

\* JobProjection with error read from the wrong column
JobProjection_error_from_raw(job) ==
    [ job_id         |-> job.id,
      status         |-> job.status,
      status_message |-> job.status_message,
      search_title   |-> job.search_title,
      results        |-> job.results,
      raw_output     |-> job.raw_output,
      error          |-> job.raw_output,
      metadata       |-> job.metadata,
      created_at     |-> job.created_at,
      completed_at   |-> job.completed_at ]

\* the ten projected fields of JobStatusResponse
JobProjection(job) ==
    [ job_id         |-> job.id,
      status         |-> job.status,
      status_message |-> job.status_message,
      search_title   |-> job.search_title,
      results        |-> job.results,
      raw_output     |-> job.raw_output,
      error          |-> job.error,
      metadata       |-> job.metadata,
      created_at     |-> job.created_at,
      completed_at   |-> job.completed_at ]

Response(op, inputs, id, code, body, immediate) ==
    [op |-> op, inputs |-> inputs, job_id |-> id, code |-> code, body |-> body,
     immediate |-> immediate]

\* resp holds the response of the step just taken, NoResponse after any other step
NoResponse == Response("none", {}, nobody, 0, NoBody, FALSE)

Idle == [phase |-> "idle", job_id |-> nobody]

\* what str(e) gives for the exception of a failed store probe
ProbeError == "connection refused"

\* health_check without its try block: the exception of the probe leaves the
\* handler, and the framework answers 500
health_check_unguarded(probeOk) ==
    /\ http.phase # "returning"
    /\ resp' = IF probeOk
               THEN Response("health", {}, nobody, 200,
                             [status |-> "healthy", version |-> "0.1.0",
                              database |-> "connected"], FALSE)
               ELSE Response("health", {}, nobody, 500, NoBody, FALSE)
    /\ http' = Idle
    /\ UNCHANGED << store, nextId, now, bg, engineOut, fault, dispatched, notified,
                    sent, notifyResult, trail >>
    /\ UNCHANGED logVars

\* GET /api/health: probeOk is whether get_supabase_client and the select on the
\* jobs table return
health_check(probeOk) ==
    /\ http.phase # "returning"
    /\ LET db_status == IF probeOk THEN "connected" ELSE "error: " \o ProbeError
       IN  resp' = Response("health", {}, nobody, 200,
                            [status |-> "healthy", version |-> "0.1.0",
                             database |-> db_status], FALSE)
    /\ http' = Idle
    /\ UNCHANGED << store, nextId, now, bg, engineOut, fault, dispatched, notified,
                    sent, notifyResult, trail >>
    /\ UNCHANGED logVars

\* submit_job calling run_crew_async twice
submit_job_twice(inputs, storeOk, startOk) ==
    /\ http.phase # "returning"
    /\ IF ~validate_crew_inputs(inputs)
       THEN /\ resp' = Response("submit", inputs, nobody, 400, NoBody, FALSE)
            /\ http' = Idle
            /\ UNCHANGED << store, nextId, now, bg, dispatched, trail >>
       ELSE IF ~storeOk
       THEN /\ resp' = Response("submit", inputs, nobody, 500, NoBody, FALSE)
            /\ http' = Idle
            /\ UNCHANGED << store, nextId, now, bg, dispatched, trail >>
       ELSE /\ nextId <= MaxJobs
            /\ LET id == nextId
                   job == create_job(id, inputs, now[id])
               IN  /\ store' = put(id, job)
                   /\ trail' = Walked(id, job)
                   /\ nextId' = nextId + 1
                   /\ now' = [now EXCEPT ![id] = @ + 1]
                   /\ IF startOk
                      THEN /\ dispatched' = [dispatched EXCEPT ![id] = @ + 2]
                           /\ bg' = [bg EXCEPT ![id] = "dispatched"]
                           /\ http' = [phase |-> "returning", job_id |-> id]
                           /\ resp' = NoResponse
                      ELSE /\ resp' = Response("submit", inputs, nobody, 500, NoBody, FALSE)
                           /\ http' = Idle
                           /\ UNCHANGED << bg, dispatched >>
    /\ UNCHANGED << engineOut, fault, notified, sent, notifyResult >>
    /\ UNCHANGED logVars

\* submit_job validating only after create_job has run
submit_job_validate_late(inputs, storeOk, startOk) ==
    /\ http.phase # "returning"
    /\ IF ~storeOk
       THEN /\ resp' = Response("submit", inputs, nobody, 500, NoBody, FALSE)
            /\ http' = Idle
            /\ UNCHANGED << store, nextId, now, bg, dispatched, trail >>
       ELSE /\ nextId <= MaxJobs
            /\ LET id == nextId
                   job == create_job(id, inputs, now[id])
               IN  /\ store' = put(id, job)
                   /\ trail' = Walked(id, job)
                   /\ nextId' = nextId + 1
                   /\ now' = [now EXCEPT ![id] = @ + 1]
                   /\ IF ~validate_crew_inputs(inputs)
                      THEN /\ resp' = Response("submit", inputs, nobody, 400, NoBody, FALSE)
                           /\ http' = Idle
                           /\ UNCHANGED << bg, dispatched >>
                      ELSE IF startOk
                      THEN /\ dispatched' = [dispatched EXCEPT ![id] = @ + 1]
                           /\ bg' = [bg EXCEPT ![id] = "dispatched"]
                           /\ http' = [phase |-> "returning", job_id |-> id]
                           /\ resp' = NoResponse
                      ELSE /\ resp' = Response("submit", inputs, nobody, 500, NoBody, FALSE)
                           /\ http' = Idle
                           /\ UNCHANGED << bg, dispatched >>
    /\ UNCHANGED << engineOut, fault, notified, sent, notifyResult >>
    /\ UNCHANGED logVars

\* submit_job going on after a create_job that raised: the id it made is
\* dispatched and returned although no record was written
submit_job_swallow(inputs, storeOk, startOk) ==
    /\ http.phase # "returning"
    /\ IF ~validate_crew_inputs(inputs)
       THEN /\ resp' = Response("submit", inputs, nobody, 400, NoBody, FALSE)
            /\ http' = Idle
            /\ UNCHANGED << store, nextId, now, bg, dispatched, trail >>
       ELSE /\ nextId <= MaxJobs
            /\ LET id == nextId
                   job == create_job(id, inputs, now[id])
               IN  /\ IF storeOk
                      THEN /\ store' = put(id, job)
                           /\ trail' = Walked(id, job)
                           /\ nextId' = nextId + 1
                           /\ now' = [now EXCEPT ![id] = @ + 1]
                      ELSE UNCHANGED << store, trail, nextId, now >>
                   /\ IF startOk
                      THEN /\ dispatched' = [dispatched EXCEPT ![id] = @ + 1]
                           /\ bg' = bg
                           /\ http' = Idle
                           /\ resp' = Response("submit", inputs, id, 200,
                                               [status |-> "pending"], FALSE)
                      ELSE /\ resp' = Response("submit", inputs, nobody, 500, NoBody, FALSE)
                           /\ http' = Idle
                           /\ UNCHANGED << bg, dispatched >>
    /\ UNCHANGED << engineOut, fault, notified, sent, notifyResult >>
    /\ UNCHANGED logVars

\* submit_job creating its record under the id of the job created before it
submit_job_reuses_id(inputs, storeOk, startOk) ==
    /\ http.phase # "returning"
    /\ IF ~validate_crew_inputs(inputs)
       THEN /\ resp' = Response("submit", inputs, nobody, 400, NoBody, FALSE)
            /\ http' = Idle
            /\ UNCHANGED << store, nextId, now, bg, dispatched, trail >>
       ELSE IF ~storeOk
       THEN /\ resp' = Response("submit", inputs, nobody, 500, NoBody, FALSE)
            /\ http' = Idle
            /\ UNCHANGED << store, nextId, now, bg, dispatched, trail >>
       ELSE /\ nextId <= MaxJobs
            /\ LET id == IF nextId > 1 THEN nextId - 1 ELSE nextId
                   job == create_job(id, inputs, now[id])
               IN  /\ store' = put(id, job)
                   /\ trail' = Walked(id, job)
                   /\ nextId' = nextId + 1
                   /\ now' = [now EXCEPT ![id] = @ + 1]
                   /\ IF startOk
                      THEN /\ dispatched' = [dispatched EXCEPT ![id] = @ + 1]
                           /\ bg' = [bg EXCEPT ![id] = "dispatched"]
                           /\ http' = [phase |-> "returning", job_id |-> id]
                           /\ resp' = NoResponse
                      ELSE /\ resp' = Response("submit", inputs, nobody, 500, NoBody, FALSE)
                           /\ http' = Idle
                           /\ UNCHANGED << bg, dispatched >>
    /\ UNCHANGED << engineOut, fault, notified, sent, notifyResult >>
    /\ UNCHANGED logVars

\* POST /api/submit up to the return statement: validate, create_job, run_crew_async
submit_job(inputs, storeOk, startOk) ==
    /\ http.phase # "returning"
    /\ IF ~validate_crew_inputs(inputs)
       THEN /\ resp' = Response("submit", inputs, nobody, 400, NoBody, FALSE)
            /\ http' = Idle
            /\ UNCHANGED << store, nextId, now, bg, dispatched, trail >>
       ELSE IF ~storeOk
       THEN \* create_job raises: the except clause answers 500
            /\ resp' = Response("submit", inputs, nobody, 500, NoBody, FALSE)
            /\ http' = Idle
            /\ UNCHANGED << store, nextId, now, bg, dispatched, trail >>
       ELSE /\ nextId <= MaxJobs
            /\ LET id == nextId
                   job == create_job(id, inputs, now[id])
               IN  /\ store' = put(id, job)
                   /\ trail' = Walked(id, job)
                   /\ nextId' = nextId + 1
                   /\ now' = [now EXCEPT ![id] = @ + 1]
                   /\ IF startOk
                      THEN /\ dispatched' = [dispatched EXCEPT ![id] = @ + 1]
                           /\ bg' = [bg EXCEPT ![id] = "dispatched"]
                           /\ http' = [phase |-> "returning", job_id |-> id]
                           /\ resp' = NoResponse
                      ELSE \* run_crew_async raises: the same except clause answers 500
                           /\ resp' = Response("submit", inputs, nobody, 500, NoBody, FALSE)
                           /\ http' = Idle
                           /\ UNCHANGED << bg, dispatched >>
    /\ UNCHANGED << engineOut, fault, notified, sent, notifyResult >>
    /\ UNCHANGED logVars

\* submit_job returning only once the crew run of its job has ended
submit_return_after_run ==
    /\ http.phase = "returning"
    /\ bg[http.job_id] = "done"
    /\ resp' = Response("submit", store[http.job_id].inputs, http.job_id, 200,
                        [status |-> "pending"], FALSE)
    /\ http' = [phase |-> "returned", job_id |-> http.job_id]
    /\ UNCHANGED << store, nextId, now, bg, engineOut, fault, dispatched, notified,
                    sent, notifyResult, trail >>
    /\ UNCHANGED logVars

\* POST /api/submit, the return statement: the job id goes back to the caller
submit_return ==
    /\ http.phase = "returning"
    /\ resp' = Response("submit", store[http.job_id].inputs, http.job_id, 200,
                        [status |-> "pending"], FALSE)
    /\ http' = [phase |-> "returned", job_id |-> http.job_id]
    /\ UNCHANGED << store, nextId, now, bg, engineOut, fault, dispatched, notified,
                    sent, notifyResult, trail >>
    /\ UNCHANGED logVars

\* get_job_status with the completed-only test of the results endpoint
get_job_status_completed_only(job_id) ==
    /\ http.phase # "returning"
    /\ LET job == get_job(job_id)
           first == http.phase = "returned" /\ http.job_id = job_id
       IN  resp' = IF job = NoJob \/ job.status # "completed"
                   THEN Response("status", {}, job_id, 404, NoBody, first)
                   ELSE Response("status", {}, job_id, 200, JobProjection(job), first)
    /\ http' = Idle
    /\ UNCHANGED << store, nextId, now, bg, engineOut, fault, dispatched, notified,
                    sent, notifyResult, trail >>
    /\ UNCHANGED logVars

\* GET /api/status/{job_id}
\* get_job_status noting the read in the record it returns
get_job_status_touching(job_id) ==
    /\ http.phase # "returning"
    /\ LET job == get_job(job_id)
           first == http.phase = "returned" /\ http.job_id = job_id
       IN  IF job = NoJob
           THEN /\ resp' = Response("status", {}, job_id, 404, NoBody, first)
                /\ store' = store
           ELSE /\ resp' = Response("status", {}, job_id, 200, JobProjection(job), first)
                /\ store' = put(job_id, [job EXCEPT !.status_message = "read"])
    /\ http' = Idle
    /\ UNCHANGED << nextId, now, bg, engineOut, fault, dispatched, notified,
                    sent, notifyResult, trail >>
    /\ UNCHANGED logVars
get_job_status(job_id) ==
    /\ http.phase # "returning"
    /\ LET job == get_job(job_id)
           first == http.phase = "returned" /\ http.job_id = job_id
       IN  resp' = IF job = NoJob
                   THEN Response("status", {}, job_id, 404, NoBody, first)
                   ELSE Response("status", {}, job_id, 200, JobProjection(job), first)
    /\ http' = Idle
    /\ UNCHANGED << store, nextId, now, bg, engineOut, fault, dispatched, notified,
                    sent, notifyResult, trail >>
    /\ UNCHANGED logVars

\* ResultsProjection leaving raw_output out
ResultsProjection_raw_dropped(job) ==
    [ job_id         |-> job.id,
      status         |-> job.status,
      status_message |-> job.status_message,
      search_title   |-> job.search_title,
      results        |-> job.results,
      raw_output     |-> None,
      error          |-> job.error,
      metadata       |-> job.metadata,
      created_at     |-> job.created_at,
      completed_at   |-> job.completed_at ]

\* the dictionary get_shareable_results returns for a completed job
ResultsProjection(job) ==
    [ job_id         |-> job.id,
      status         |-> job.status,
      status_message |-> job.status_message,
      search_title   |-> job.search_title,
      results        |-> job.results,
      raw_output     |-> job.raw_output,
      error          |-> job.error,
      metadata       |-> job.metadata,
      created_at     |-> job.created_at,
      completed_at   |-> job.completed_at ]
\* get_shareable_results without its first check: reading the status of an
\* absent record raises, and the framework answers 500
get_shareable_results_unchecked(job_id) ==
    /\ http.phase # "returning"
    /\ LET job == get_job(job_id)
       IN  resp' = IF job = NoJob
                   THEN Response("results", {}, job_id, 500, NoBody, FALSE)
                   ELSE IF job.status # "completed"
                   THEN Response("results", {}, job_id, 404, NoBody, FALSE)
                   ELSE Response("results", {}, job_id, 200, ResultsProjection(job), FALSE)
    /\ http' = Idle
    /\ UNCHANGED << store, nextId, now, bg, engineOut, fault, dispatched, notified,
                    sent, notifyResult, trail >>
    /\ UNCHANGED logVars

\* GET /api/results/{job_id}
get_shareable_results(job_id) ==
    /\ http.phase # "returning"
    /\ LET job == get_job(job_id)
       IN  resp' = IF job = NoJob
                   THEN Response("results", {}, job_id, 404, NoBody, FALSE)
                   ELSE IF job.status # "completed"
                   THEN Response("results", {}, job_id, 404, NoBody, FALSE)
                   ELSE Response("results", {}, job_id, 200, ResultsProjection(job), FALSE)
    /\ http' = Idle
    /\ UNCHANGED << store, nextId, now, bg, engineOut, fault, dispatched, notified,
                    sent, notifyResult, trail >>
    /\ UNCHANGED logVars

(* ---------------- the background unit of one job (spec section 4.2, execute) ---------------- *)
\* A store write of the unit either replaces the record (ok) or raises and leaves
\* it as it was; a raised write is treated as a terminal condition: the unit goes
\* on to mark the job failed (section 7, store error).

\* execute: the record goes to running before the engine is invoked
execute_mark_running(id, ok) ==
    /\ bg[id] = "dispatched"
    /\ IF ok
       THEN /\ store' = put(id, MarkedRunning(store[id]))
            /\ trail' = Walked(id, MarkedRunning(store[id]))
            /\ now' = now
            /\ bg' = [bg EXCEPT ![id] = "engine"]
            /\ fault' = fault
       ELSE /\ bg' = [bg EXCEPT ![id] = "faulted"]
            /\ fault' = [fault EXCEPT ![id] = "store error"]
            /\ UNCHANGED << store, trail, now >>
    /\ resp' = NoResponse
    /\ UNCHANGED << nextId, engineOut, dispatched, notified, sent, notifyResult,
                    http >>
    /\ UNCHANGED logVars

\* the engine call returns (title, results, raw_output)
engine_returns(id, out) ==
    /\ bg[id] = "engine"
    /\ engineOut' = [engineOut EXCEPT ![id] = out]
    /\ bg' = [bg EXCEPT ![id] = "returned"]
    /\ resp' = NoResponse
    /\ UNCHANGED << store, nextId, now, fault, dispatched, notified, sent,
                    notifyResult, http, trail >>
    /\ UNCHANGED logVars

\* the engine call raises
engine_faults(id) ==
    /\ bg[id] = "engine"
    /\ fault' = [fault EXCEPT ![id] = "network timeout"]
    /\ bg' = [bg EXCEPT ![id] = "faulted"]
    /\ resp' = NoResponse
    /\ UNCHANGED << store, nextId, now, engineOut, dispatched, notified, sent,
                    notifyResult, http, trail >>
    /\ UNCHANGED logVars

\* execute, on engine success: the completed record is persisted
execute_complete(id, ok) ==
    /\ bg[id] = "returned"
    /\ IF ok
       THEN /\ store' = put(id, MarkedCompleted(store[id], engineOut[id], now[id]))
            /\ trail' = Walked(id, MarkedCompleted(store[id], engineOut[id], now[id]))
            /\ now' = [now EXCEPT ![id] = @ + 1]
            /\ bg' = [bg EXCEPT ![id] = "notify"]
            /\ UNCHANGED << fault, engineOut >>
       ELSE \* the result is of no further use to the unit
            /\ bg' = [bg EXCEPT ![id] = "faulted"]
            /\ fault' = [fault EXCEPT ![id] = "store error"]
            /\ engineOut' = [engineOut EXCEPT ![id] = NoOutput]
            /\ UNCHANGED << store, trail, now >>
    /\ resp' = NoResponse
    /\ UNCHANGED << nextId, dispatched, notified, sent, notifyResult, http >>
    /\ UNCHANGED logVars

\* execute, after the completed record is persisted: the Completion Notifier is
\* invoked; an exception leaving it would reach the unit's fault handler
execute_notify(id, key, delivery) ==
    /\ bg[id] = "notify"
    /\ LET r == send_results_email(key, delivery)
       IN  /\ notified' = [notified EXCEPT ![id] = @ + 1]
           /\ sent' = [sent EXCEPT ![id] = @ + r.sends]
           /\ IF r.raised
              THEN /\ notifyResult' = [notifyResult EXCEPT ![id] = "raised"]
                   /\ fault' = [fault EXCEPT ![id] = "notification error"]
                   /\ bg' = [bg EXCEPT ![id] = "faulted"]
              ELSE /\ notifyResult' = [notifyResult EXCEPT ![id] =
                                          IF r.returned THEN "True" ELSE "False"]
                   /\ fault' = fault
                   /\ bg' = [bg EXCEPT ![id] = "done"]
    /\ resp' = NoResponse
    /\ UNCHANGED << store, nextId, now, engineOut, dispatched, http, trail >>
    /\ UNCHANGED logVars

\* execute, on a fault: the failed record is persisted; if that write raises too
\* the job is stuck as it is
execute_fail(id, ok) ==
    /\ bg[id] = "faulted"
    /\ IF ok
       THEN /\ store' = put(id, MarkedFailed(store[id], fault[id], now[id]))
            /\ trail' = Walked(id, MarkedFailed(store[id], fault[id], now[id]))
            /\ now' = [now EXCEPT ![id] = @ + 1]
       ELSE UNCHANGED << store, trail, now >>
    /\ bg' = [bg EXCEPT ![id] = "done"]
    /\ fault' = [fault EXCEPT ![id] = None]
    /\ resp' = NoResponse
    /\ UNCHANGED << nextId, engineOut, dispatched, notified, sent, notifyResult,
                    http >>
    /\ UNCHANGED logVars

(* ---------------- backend/logging_config.py ---------------- *)
\* how many times logging.basicConfig is let run
MaxConfigs == 3

Threads == {"main", "worker"}

\* the log_level arguments tried, and what str.upper makes of them
LogLevels == {"INFO", "debug", "verbose"}

upper(log_level) ==
    IF log_level = "debug" THEN "DEBUG"
    ELSE IF log_level = "verbose" THEN "VERBOSE"
    ELSE log_level

\* the names among them that getattr(logging, ...) finds
LevelNames == {"DEBUG", "INFO"}

\* the log_file arguments tried; "if log_file" takes None and "" alike
LogFiles == {"cache.log", "", None}

Truthy(log_file) == log_file # None /\ log_file # ""

\* the root logger before any basicConfig; gen counts the basicConfig calls, each
\* of which closes the handlers in place and installs new ones (force=True)
Unconfigured == [level |-> "WARNING", console |-> FALSE, file |-> None, gen |-> 0]

\* a thread's call: pc is "idle" outside the module, "called" when
\* configure_logging has been invoked by get_logger or set_debug_mode and has not
\* read the flag yet, "configuring" past the flag check; late is whether a
\* configuration had completed when the thread entered the module
Call(pc, via, log_level, log_file, late) ==
    [pc |-> pc, via |-> via, log_level |-> log_level, log_file |-> log_file, late |-> late]

NotCalling == Call("idle", None, None, None, FALSE)

LogEvent(thread, op, outcome) == [thread |-> thread, op |-> op, outcome |-> outcome]

NoLogEvent == LogEvent(None, None, None)

\* configure_logging without its early return
configure_logging_always(t, log_level, log_file) ==
    /\ caller[t].pc = "idle"
    /\ caller' = [caller EXCEPT ![t] =
                     Call("configuring", "configure_logging", log_level, log_file,
                          root.gen >= 1)]
    /\ logEvent' = LogEvent(t, "configure_logging", "entered")
    /\ UNCHANGED << _logging_configured, root, debugUsed >>
    /\ UNCHANGED jobVars

\* configure_logging called from outside the module, up to the flag check
configure_logging(t, log_level, log_file) ==
    /\ caller[t].pc = "idle"
    /\ IF _logging_configured
       THEN /\ caller' = caller
            /\ logEvent' = LogEvent(t, "configure_logging", "ignored")
       ELSE /\ caller' = [caller EXCEPT ![t] =
                             Call("configuring", "configure_logging", log_level, log_file,
                                  root.gen >= 1)]
            /\ logEvent' = LogEvent(t, "configure_logging", "entered")
    /\ UNCHANGED << _logging_configured, root, debugUsed >>
    /\ UNCHANGED jobVars

\* get_logger: the flag check, then either the default configure_logging call
\* or the return of the logger
get_logger(t) ==
    /\ caller[t].pc = "idle"
    /\ IF ~_logging_configured
       THEN /\ caller' = [caller EXCEPT ![t] =
                             Call("called", "get_logger", "INFO", "cache.log", root.gen >= 1)]
            /\ logEvent' = LogEvent(t, "get_logger", "called")
       ELSE /\ caller' = caller
            /\ logEvent' = LogEvent(t, "get_logger", "returned")
    /\ UNCHANGED << _logging_configured, root, debugUsed >>
    /\ UNCHANGED jobVars

\* set_debug_mode: the flag is reset, then configure_logging is called
set_debug_mode(t) ==
    /\ caller[t].pc = "idle"
    /\ _logging_configured' = FALSE
    /\ debugUsed' = TRUE
    /\ caller' = [caller EXCEPT ![t] =
                     Call("called", "set_debug_mode", "DEBUG", "cache.log", root.gen >= 1)]
    /\ logEvent' = LogEvent(t, "set_debug_mode", "called")
    /\ root' = root
    /\ UNCHANGED jobVars

\* the flag check of a configure_logging call made inside the module
configure_logging_nested(t) ==
    /\ caller[t].pc = "called"
    /\ IF _logging_configured
       THEN /\ caller' = [caller EXCEPT ![t] = NotCalling]
            /\ logEvent' = LogEvent(t, caller[t].via, "ignored")
       ELSE /\ caller' = [caller EXCEPT ![t].pc = "configuring"]
            /\ logEvent' = LogEvent(t, caller[t].via, "entered")
    /\ UNCHANGED << _logging_configured, root, debugUsed >>
    /\ UNCHANGED jobVars

\* configure_logging past the flag check: the directory and the handlers are
\* made, basicConfig is called, the flag is set; ioOk is whether mkdir and
\* FileHandler return. An exception leaves before basicConfig.
configure_logging_body(t, ioOk) ==
    /\ caller[t].pc = "configuring"
    /\ LET c == caller[t]
           raises == \/ Truthy(c.log_file) /\ ~ioOk
                     \/ upper(c.log_level) \notin LevelNames
       IN  IF raises
           THEN /\ logEvent' = LogEvent(t, c.via, "raised")
                /\ UNCHANGED << _logging_configured, root >>
           ELSE /\ root.gen < MaxConfigs
                /\ root' = [level   |-> upper(c.log_level),
                            console |-> TRUE,
                            file    |-> IF Truthy(c.log_file) THEN c.log_file ELSE None,
                            gen     |-> root.gen + 1]
                /\ _logging_configured' = TRUE
                /\ logEvent' = LogEvent(t, c.via, "configured")
    /\ caller' = [caller EXCEPT ![t] = NotCalling]
    /\ debugUsed' = debugUsed
    /\ UNCHANGED jobVars

NextLogging ==
    \/ \E t \in Threads, log_level \in LogLevels, log_file \in LogFiles :
          configure_logging(t, log_level, log_file)
    \/ \E t \in Threads : get_logger(t)
    \/ \E t \in Threads : set_debug_mode(t)
    \/ \E t \in Threads : configure_logging_nested(t)
    \/ \E t \in Threads, ioOk \in BOOLEAN : configure_logging_body(t, ioOk)

(* ---------------- the system ---------------- *)
Init ==
    /\ store = [id \in Ids |-> NoJob]
    /\ nextId = 1
    /\ now = [id \in Ids |-> 1]
    /\ bg = [id \in Ids |-> "none"]
    /\ engineOut = [id \in Ids |-> NoOutput]
    /\ fault = [id \in Ids |-> None]
    /\ dispatched = [id \in Ids |-> 0]
    /\ notified = [id \in Ids |-> 0]
    /\ sent = [id \in Ids |-> 0]
    /\ notifyResult = [id \in Ids |-> "none"]
    /\ http = Idle
    /\ resp = NoResponse
    /\ trail = [id \in Ids |-> <<>>]
    /\ _logging_configured = FALSE
    /\ root = Unconfigured
    /\ caller = [t \in Threads |-> NotCalling]
    /\ debugUsed = FALSE
    /\ logEvent = NoLogEvent

Next ==
    \/ \E inputs \in InputSets, storeOk \in BOOLEAN, startOk \in BOOLEAN :
          submit_job(inputs, storeOk, startOk)
    \/ submit_return
    \/ \E probeOk \in BOOLEAN : health_check(probeOk)
    \/ \E id \in Ids : get_job_status(id)
    \/ \E id \in Ids : get_shareable_results(id)
    \/ \E id \in Ids, ok \in BOOLEAN : execute_mark_running(id, ok)
    \/ \E id \in Ids, out \in EngineOutputs : engine_returns(id, out)
    \/ \E id \in Ids : engine_faults(id)
    \/ \E id \in Ids, ok \in BOOLEAN : execute_complete(id, ok)
    \/ \E id \in Ids, key \in BOOLEAN, delivery \in Deliveries :
          execute_notify(id, key, delivery)
    \/ \E id \in Ids, ok \in BOOLEAN : execute_fail(id, ok)

Spec == Init /\ [][Next]_vars

\* Scheduling: a handler that has started runs to its return, and a started
\* background thread gets to run each of its own steps; nothing makes the
\* discovery engine answer.
UnitSteps(id) ==
    \/ \E ok \in BOOLEAN : execute_mark_running(id, ok)
    \/ \E ok \in BOOLEAN : execute_complete(id, ok)
    \/ \E key \in BOOLEAN, delivery \in Deliveries : execute_notify(id, key, delivery)
    \/ \E ok \in BOOLEAN : execute_fail(id, ok)

Fairness ==
    /\ WF_vars(submit_return)
    /\ \A id \in Ids : WF_vars(UnitSteps(id))

FairSpec == Spec /\ Fairness

\* The system with a store that accepts every write of the background unit
ReliableSteps(id) ==
    \/ execute_mark_running(id, TRUE)
    \/ execute_complete(id, TRUE)
    \/ \E key \in BOOLEAN, delivery \in Deliveries : execute_notify(id, key, delivery)
    \/ execute_fail(id, TRUE)

NextReliable ==
    \/ \E inputs \in InputSets, storeOk \in BOOLEAN, startOk \in BOOLEAN :
          submit_job(inputs, storeOk, startOk)
    \/ submit_return
    \/ \E probeOk \in BOOLEAN : health_check(probeOk)
    \/ \E id \in Ids : get_job_status(id)
    \/ \E id \in Ids : get_shareable_results(id)
    \/ \E id \in Ids : execute_mark_running(id, TRUE)
    \/ \E id \in Ids, out \in EngineOutputs : engine_returns(id, out)
    \/ \E id \in Ids : engine_faults(id)
    \/ \E id \in Ids : execute_complete(id, TRUE)
    \/ \E id \in Ids, key \in BOOLEAN, delivery \in Deliveries :
          execute_notify(id, key, delivery)
    \/ \E id \in Ids : execute_fail(id, TRUE)

ReliableSpec ==
    /\ Init /\ [][NextReliable]_vars
    /\ WF_vars(submit_return)
    /\ \A id \in Ids : WF_vars(ReliableSteps(id))

\* The logging module on its own, called by two threads in any order
LoggingSpec == Init /\ [][NextLogging]_vars

(* ---------------- properties ---------------- *)
Created == { id \in Ids : store[id] # NoJob }

IsPrefix(s, t) == Len(s) <= Len(t) /\ \A i \in 1..Len(s) : s[i] = t[i]

\* a status read that found the job
ReadFound == resp.op \in {"status", "results"} /\ resp.code = 200

\* C1: the statuses a job's record goes through, as successive status reads see
\* them, form a prefix of [pending, running, completed] or of
\* [pending, running, failed].
C1_StatusPath ==
    \A id \in Ids :
        \/ IsPrefix(trail[id], << "pending", "running", "completed" >>)
        \/ IsPrefix(trail[id], << "pending", "running", "failed" >>)

\* C2 as stated: the get that directly follows the return of create shows
\* status = pending and no completed_at.
C2_ImmediateGetPending ==
    (resp.op = "status" /\ resp.immediate) =>
        /\ resp.code = 200
        /\ resp.body.status = "pending"
        /\ resp.body.completed_at = NoTime

\* C2 amended: create answers with a job id only once the record is persisted and
\* its execution dispatched; the get that directly follows finds that record, and
\* shows pending with no completed_at whenever the job's background unit has not
\* yet made its first store write.
C2_ImmediateGetFindsJob ==
    /\ (resp.op = "submit" /\ resp.code = 200) =>
          /\ resp.job_id \in Created
          /\ dispatched[resp.job_id] = 1
    /\ (resp.op = "status" /\ resp.immediate) =>
          /\ resp.code = 200
          /\ resp.body.job_id = resp.job_id
          /\ resp.body.status \in Statuses
          /\ bg[resp.job_id] = "dispatched" =>
                (resp.body.status = "pending" /\ resp.body.completed_at = NoTime)

C2_Witness ==
    /\ resp.op = "status" /\ resp.immediate /\ resp.code = 200
    /\ resp.body.status = "pending"
    /\ bg[resp.job_id] = "dispatched"

C3_Iff ==
    /\ \A id \in Created : (store[id].completed_at # NoTime) <=> (store[id].status \in Terminal)
    /\ ReadFound => ((resp.body.completed_at # NoTime) <=> (resp.body.status \in Terminal))

C3_Once ==
    \A id \in Created :
        /\ store[id].completed_at # NoTime => store'[id].completed_at = store[id].completed_at
        /\ (store[id].completed_at = NoTime /\ store'[id].completed_at # NoTime) =>
              (store[id].status \notin Terminal /\ store'[id].status \in Terminal)

\* C3: completed_at is set exactly when the status is completed or failed, in the
\* store and in every record a read returns; it is written at the step that makes
\* the status terminal and keeps its value from then on.
C3_CompletedAt == []C3_Iff /\ [][C3_Once]_vars

C3_Witness ==
    /\ ReadFound /\ resp.body.status \in Terminal /\ resp.body.completed_at # NoTime
    /\ \E id \in Created : store[id].status = "pending"

PayloadFits(r) ==
    /\ (r.results # NoResults \/ r.raw_output # None) => r.status = "completed"
    /\ r.error # None => r.status = "failed"
    /\ ~(r.results # NoResults /\ r.error # None)
    /\ r.status \in {"pending", "running"} => (r.results = NoResults /\ r.error = None)

\* C4: results and raw_output are present only on a completed record and error
\* only on a failed one, in the store and in every record a read returns; no
\* record carries both results and an error, a pending or running one neither.
C4_Payload ==
    /\ \A id \in Created : PayloadFits(store[id])
    /\ ReadFound => PayloadFits(resp.body)

C4_Witness ==
    /\ resp.op = "status" /\ resp.code = 200
    /\ resp.body.status = "completed" /\ resp.body.results # NoResults
    /\ resp.body.raw_output # None /\ resp.body.error = None
    /\ \E id \in Created : store[id].status = "failed" /\ store[id].error # None

C5_AtMostOnce ==
    \A id \in Ids :
        /\ notified[id] <= 1
        /\ sent[id] <= notified[id]
        /\ notified[id] = 1 => (id \in Created /\ store[id].status = "completed")

\* C5: the notifier is invoked at most once per job, with at most one delivery
\* call, and only for a job whose record is completed; every job that reaches
\* completed gets its invocation.
C5_NotifiedIffCompleted ==
    /\ []C5_AtMostOnce
    /\ \A id \in Ids :
          (id \in Created /\ store[id].status = "completed") ~> (notified[id] = 1)

C5_Witness ==
    /\ \E id \in Created : store[id].status = "completed" /\ notified[id] = 1 /\ sent[id] = 1
    /\ \E id \in Created : store[id].status = "failed" /\ notified[id] = 0

C6_Frame ==
    \A id \in Ids :
        notified'[id] >= 1 =>
            /\ store'[id] = store[id]
            /\ notified'[id] # notified[id] => (store' = store /\ http' = http /\ resp' = NoResponse)

C6_Kept ==
    \A id \in Ids :
        notifyResult[id] # "none" =>
            /\ notifyResult[id] \in {"True", "False"}
            /\ store[id].status = "completed"
            /\ store[id].results = engineOut[id].results
            /\ store[id].search_title = engineOut[id].title
            /\ store[id].completed_at # NoTime

\* C6: a notifier call, failed or not, changes no job record and sends nothing to
\* any HTTP caller, and from the call on the job's record stays as it was:
\* completed, with the results, search_title and completed_at it had.
C6_NotifierFailureIsolated == []C6_Kept /\ [][C6_Frame]_vars

C6_Witness ==
    \E id \in Created :
        /\ notifyResult[id] = "False" /\ sent[id] = 1
        /\ store[id].status = "completed"
        /\ resp.op = "status" /\ resp.code = 200 /\ resp.job_id = id

\* C7: a submission is answered with an error only when it persisted nothing: an
\* error answer (400 or 500) comes from a step that leaves the store as it was.
C7_ErrorMeansNothingPersisted ==
    [][ (resp'.op = "submit" /\ resp'.code \in {400, 500}) => store' = store ]_vars

C8_Single ==
    \A id \in Ids :
        /\ dispatched[id] <= 1
        /\ bg[id] # "none" => dispatched[id] = 1
        /\ dispatched[id] = 1 => id \in Created
        /\ (resp.op = "submit" /\ resp.code = 200 /\ resp.job_id = id) =>
              (dispatched[id] = 1 /\ bg[id] # "none")

C8_NoReentry ==
    \A id \in Ids :
        /\ dispatched'[id] # dispatched[id] =>
              (store[id] = NoJob /\ store'[id] # NoJob /\ http'.phase = "returning")
        /\ bg'[id] = "dispatched" => bg[id] \in {"none", "dispatched"}
        /\ bg'[id] = "none" => bg[id] = "none"

\* C8: run_crew_async is called at most once per job id, by the submission that
\* created the id, and exactly once for a submission that is answered with its
\* id; no other step dispatches, and a unit that has begun never goes back to
\* its start.
C8_SingleDispatch == []C8_Single /\ [][C8_NoReentry]_vars

C8_Witness ==
    /\ dispatched[1] = 1 /\ bg[1] = "done"
    /\ dispatched[2] = 1 /\ bg[2] = "engine"
    /\ resp.op = "status" /\ resp.code = 200 /\ resp.job_id = 1

\* C9: a submission that has persisted and dispatched its job can always return,
\* whatever the engine is doing, and does return its job id even when no engine
\* call ever returns.
C9_SubmitNeverWaits ==
    /\ [](http.phase = "returning" => ENABLED submit_return)
    /\ (http.phase = "returning") ~> (resp.op = "submit" /\ resp.code = 200)

C9_Witness ==
    /\ resp.op = "submit" /\ resp.code = 200 /\ resp.job_id = 2
    /\ bg[1] = "engine" /\ bg[2] = "engine"

C10_Rejected ==
    /\ (resp'.op = "submit" /\ ~validate_crew_inputs(resp'.inputs)) => resp'.code = 400
    /\ (resp'.op = "submit" /\ resp'.code = 400) =>
          /\ ~validate_crew_inputs(resp'.inputs)
          /\ resp'.job_id = nobody
          /\ store' = store
          /\ nextId' = nextId
          /\ dispatched' = dispatched
          /\ bg' = bg

\* C10: a submission whose inputs satisfy no input group is answered 400 with no
\* job id, and the step leaves the store, the ids and the background units as
\* they were; no stored record holds inputs that fail the validator.
C10_InvalidRejected ==
    /\ [](\A id \in Created : validate_crew_inputs(store[id].inputs))
    /\ [][C10_Rejected]_vars

C10_Witness ==
    /\ resp.op = "submit" /\ resp.code = 400 /\ resp.inputs = {"book_title"}
    /\ store[1] # NoJob /\ store[2] = NoJob

\* the step of a valid submission whose create_job raises
C11_StoreFailure ==
    \A inputs \in { i \in InputSets : resp'.op = "submit" /\ validate_crew_inputs(i) },
       startOk \in BOOLEAN :
        submit_job(inputs, FALSE, startOk) =>
            /\ resp'.op = "submit" /\ resp'.code = 500
            /\ resp'.job_id = nobody
            /\ store' = store /\ nextId' = nextId
            /\ dispatched' = dispatched /\ bg' = bg
            /\ http'.phase = "idle"

\* C11: a submission whose store write raises is answered 500 with no job id, and
\* its step writes no record, assigns no id and dispatches no background unit; a
\* 500 never carries a job id.
C11_StoreWriteFailure ==
    /\ [](resp.op = "submit" /\ resp.code = 500 => resp.job_id = nobody)
    /\ [](\A id \in Ids : dispatched[id] >= 1 => id \in Created)
    /\ [][C11_StoreFailure]_vars

C11_Witness ==
    /\ resp.op = "submit" /\ resp.code = 500 /\ resp.inputs = {"book_title", "book_author"}
    /\ store[1] # NoJob /\ dispatched[1] = 1
    /\ store[2] = NoJob /\ nextId = 2 /\ dispatched[2] = 0

\* the record an engine fault is to leave behind
FailedBy(job, description) ==
    /\ job.status = "failed"
    /\ job.error = description
    /\ job.completed_at # NoTime
    /\ job.results = NoResults

\* the fault handler's step leaves every other job and the request path alone
C12_Contained(id) ==
    /\ \A other \in Ids \ {id} : store'[other] = store[other] /\ bg'[other] = bg[other]
    /\ http' = http /\ nextId' = nextId
    /\ notified' = notified /\ sent' = sent
    /\ bg'[id] = "done"

\* C12 as stated: whatever the store does, the handling of an engine fault
\* leaves the record failed with the fault description.
C12_EngineFaultAlwaysFails ==
    [][\A id \in Ids, ok \in BOOLEAN :
          (fault[id] = "network timeout" /\ execute_fail(id, ok)) =>
              FailedBy(store'[id], "network timeout")]_vars

\* C12: an engine fault whose failed record the store accepts leaves the record
\* failed, with the fault description as error, completed_at set and results
\* absent, and a status read shows just that; when the store refuses that write
\* the record stays running. Either way the step touches no other job and not the
\* request path, and a failed job has no notification attempt.
C12_EngineFaultFails ==
    /\ [][\A id \in Ids :
            (fault[id] = "network timeout" /\ execute_fail(id, TRUE)) =>
                FailedBy(store'[id], "network timeout") /\ C12_Contained(id)]_vars
    /\ [][\A id \in Ids :
            (fault[id] = "network timeout" /\ execute_fail(id, FALSE)) =>
                /\ store'[id] = store[id] /\ store[id].status = "running"
                /\ C12_Contained(id)]_vars
    /\ [](\A id \in Created :
            store[id].status = "failed" =>
                /\ notified[id] = 0 /\ sent[id] = 0
                /\ store[id].error # None
                /\ store[id].completed_at # NoTime
                /\ store[id].results = NoResults)
    /\ [](ReadFound /\ resp.body.status = "failed" =>
            /\ resp.body.error = store[resp.job_id].error
            /\ resp.body.error # None
            /\ resp.body.results = NoResults
            /\ resp.body.completed_at # NoTime)

C12_Witness ==
    /\ ReadFound /\ resp.op = "status"
    /\ resp.body.status = "failed"
    /\ resp.body.error = "network timeout"
    /\ bg[resp.job_id] = "done" /\ notified[resp.job_id] = 0

\* the record holds what the engine returned for the job
HoldsOutput(id) ==
    /\ store[id].status = "completed"
    /\ store[id].search_title = engineOut[id].title
    /\ store[id].results = engineOut[id].results

\* C13: with a store that accepts every write and a fairly scheduled background
\* unit, a job whose engine call returned an output gets to completed, holding
\* the title and the result list of that output, and keeps them; a job whose
\* engine call faulted gets to failed; and as long as the engine call of a job
\* has not returned its record is running.
C13_Terminates ==
    /\ \A id \in Ids : (bg[id] = "returned") ~> (bg[id] = "done" /\ HoldsOutput(id))
    /\ \A id \in Ids : (bg[id] = "faulted") ~> (bg[id] = "done" /\ store[id].status = "failed")
    /\ [](\A id \in Ids : bg[id] \in {"notify", "done"} /\ engineOut[id] # NoOutput
                             => HoldsOutput(id))
    /\ [](\A id \in Ids : bg[id] = "done" => store[id].status \in Terminal)
    /\ [](\A id \in Ids : bg[id] = "engine" => store[id].status = "running")
    /\ [][\A id \in Ids : store[id] # NoJob /\ store[id].status \in Terminal
                             => store'[id] = store[id]]_vars

C13_Witness ==
    /\ bg[1] = "done" /\ HoldsOutput(1) /\ engineOut[1].results = << >>
    /\ bg[2] = "done" /\ store[2].status = "failed"

\* C14: the results endpoint answers 404 for a job whose record is pending,
\* running or failed, and for a completed job it answers 200 with the ten fields
\* the status endpoint projects from the same record.
C14_ResultsOnlyWhenCompleted ==
    resp.op = "results" /\ store[resp.job_id] # NoJob =>
        LET job == store[resp.job_id]
        IN  /\ job.status \in {"pending", "running", "failed"} =>
                 resp.code = 404 /\ resp.body = NoBody
            /\ job.status = "completed" =>
                 /\ resp.code = 200
                 /\ resp.body = JobProjection(job)
                 /\ DOMAIN resp.body = DOMAIN JobProjection(job)
                 /\ Cardinality(DOMAIN resp.body) = 10

C14_Witness ==
    /\ resp.op = "results" /\ resp.code = 200
    /\ resp.body.status = "completed" /\ resp.body.raw_output = "raw"
    /\ \E id \in Created : store[id].status = "failed"

\* C15: a call of send_results_email lets no exception out; without an API key
\* it returns False and does not call the delivery service; when building or
\* sending raises it returns False; it returns True only when an API key is set
\* and the send call returned.
C15_NotifyNeverRaises ==
    /\ [](\A id \in Ids : notifyResult[id] # "raised")
    /\ [][\A id \in { i \in Ids : notified'[i] # notified[i] },
             key \in BOOLEAN, delivery \in Deliveries :
            execute_notify(id, key, delivery) =>
                /\ notifyResult'[id] \in {"True", "False"}
                /\ bg'[id] = "done" /\ fault' = fault
                /\ ~key => notifyResult'[id] = "False" /\ sent' = sent
                /\ delivery # "ok" => notifyResult'[id] = "False"
                /\ delivery = "build_error" => sent' = sent
                /\ notifyResult'[id] = "True" =>
                       key /\ delivery = "ok" /\ sent'[id] = sent[id] + 1]_vars

C15_Witness ==
    \E a, b \in Ids :
        /\ notifyResult[a] = "False" /\ sent[a] = 0 /\ notified[a] = 1
        /\ notifyResult[b] = "True" /\ sent[b] = 1 /\ notified[b] = 1

\* C16: a status read and a results read of an id for which no job was created
\* are answered 404 with no record, whatever other jobs exist; and a record once
\* created is never removed, so an id without a record never had one.
C16_UnknownIdNotFound ==
    /\ [](resp.op \in {"status", "results"} /\ resp.job_id \notin Created =>
             resp.code = 404 /\ resp.body = NoBody)
    /\ [][\A id \in Created : store'[id] # NoJob /\ store'[id].id = id]_vars

C16_Witness ==
    /\ resp.op = "results" /\ resp.code = 404
    /\ resp.job_id \notin Created
    /\ \E id \in Created : store[id].status = "completed"

\* C17: a health request is answered 200 with status "healthy" whether the store
\* probe returns or raises, with database "connected" in the first case and the
\* error's description in the second, and its step writes nothing.
C17_HealthNeverFails ==
    /\ [](resp.op = "health" =>
             /\ resp.code = 200
             /\ resp.body.status = "healthy"
             /\ resp.body.database \in {"connected", "error: connection refused"})
    /\ [][\A probeOk \in { b \in BOOLEAN : resp'.op = "health" } :
            health_check(probeOk) =>
                /\ resp'.code = 200 /\ resp'.body.status = "healthy"
                /\ probeOk => resp'.body.database = "connected"
                /\ ~probeOk => resp'.body.database = "error: connection refused"
                /\ store' = store /\ nextId' = nextId /\ bg' = bg
                /\ dispatched' = dispatched]_vars

C17_Witness ==
    /\ resp.op = "health" /\ resp.code = 200
    /\ resp.body.database = "error: connection refused"
    /\ \E id \in Created : store[id].status = "running"

\* the completed record is in the store
CompletedPersisted(id) ==
    /\ store[id].status = "completed"
    /\ store[id].results \in ResultLists
    /\ store[id].search_title \in Titles
    /\ store[id].completed_at # NoTime

\* C18: the notifier is called for a job only when the completed record of that
\* job is in the store, and from then on a status read of the job shows
\* completed.
C18_NotifyAfterCompleted ==
    /\ [][\A id \in Ids :
            notified'[id] # notified[id] =>
                CompletedPersisted(id) /\ store'[id] = store[id]]_vars
    /\ [](\A id \in Ids : bg[id] = "notify" \/ notified[id] >= 1 => CompletedPersisted(id))
    /\ [](ReadFound /\ resp.op = "status" /\ notified[resp.job_id] >= 1 =>
             /\ resp.body.status = "completed"
             /\ resp.body.completed_at # NoTime
             /\ resp.body.results \in ResultLists
             /\ resp.body.search_title \in Titles)

C18_Witness ==
    /\ ReadFound /\ resp.op = "status"
    /\ notified[resp.job_id] = 1 /\ notifyResult[resp.job_id] = "False"
    /\ resp.body.status = "completed"

\* the engine call of the job is in progress or has returned
EngineInvoked(id) ==
    \/ bg[id] \in {"engine", "returned", "notify"}
    \/ engineOut[id] # NoOutput
    \/ fault[id] = "network timeout"

\* C19: the engine is called for a job only when the record of the job is
\* running: while the call is in progress and after it returned, the stored
\* status is not pending, and a status read does not show pending.
C19_EngineAfterRunning ==
    /\ [][\A id \in Ids :
            bg[id] # "engine" /\ bg'[id] = "engine" =>
                store'[id].status = "running"]_vars
    /\ [][\A id \in { i \in Ids : bg[i] = "engine" /\ bg'[i] # "engine" } :
            (engine_faults(id) \/ \E out \in EngineOutputs : engine_returns(id, out)) /\
                store[id].status = "running"]_vars
    /\ [](\A id \in Ids : EngineInvoked(id) =>
             store[id] # NoJob /\ store[id].status # "pending")
    /\ [](ReadFound /\ resp.op = "status" /\ EngineInvoked(resp.job_id) =>
             resp.body.status # "pending")

C19_Witness ==
    /\ ReadFound /\ resp.op = "status"
    /\ bg[resp.job_id] = "engine"
    /\ resp.body.status = "running"

\* a record as one write of create or of the background unit leaves it
Coherent(job) ==
    /\ job.status \in {"pending", "running"} =>
          /\ job.completed_at = NoTime /\ job.results = NoResults
          /\ job.search_title = None /\ job.error = None
    /\ job.status = "completed" =>
          /\ job.completed_at # NoTime /\ job.results \in ResultLists
          /\ job.search_title \in Titles /\ job.error = None
    /\ job.status = "failed" =>
          /\ job.completed_at # NoTime /\ job.error # None
          /\ job.results = NoResults /\ job.search_title = None

\* C20: what a read returns while the job's background unit runs is, field for
\* field, the record the last store write of that id left, never a mix of two
\* writes; a step that answers a status, results or health request, and the
\* return of a submission, write no record, and a record once created is changed
\* by the steps of its own background unit only.
C20_ReadsCommitted ==
    /\ [](ReadFound =>
             /\ resp.body = JobProjection(store[resp.job_id])
             /\ Coherent(store[resp.job_id])
             /\ Coherent([store[resp.job_id] EXCEPT
                             !.status = resp.body.status,
                             !.results = resp.body.results,
                             !.completed_at = resp.body.completed_at,
                             !.error = resp.body.error,
                             !.search_title = resp.body.search_title]))
    /\ [][\/ resp'.op \in {"status", "results", "health"}
          \/ resp'.op = "submit" /\ http.phase = "returning" =>
                store' = store /\ trail' = trail]_vars
    /\ [][\A id \in Created : store'[id] # store[id] => bg'[id] # bg[id]]_vars

C20_Witness ==
    /\ ReadFound /\ resp.op = "status"
    /\ bg[resp.job_id] = "notify"
    /\ resp.body.status = "completed" /\ resp.body.completed_at # NoTime
    /\ resp.body.results # NoResults

\* the steps of the background unit of a job: each moves the unit's position
UnitStepOf(id) == bg[id] # "none" /\ bg'[id] # bg[id]

\* C21: a step of the background unit of one job (mark running, engine call,
\* terminal write, notification) leaves the record and the unit of every other
\* job as they were, and the id, the inputs and created_at of a record stay what
\* its creation wrote for as long as the record exists.
C21_JobsIsolated ==
    /\ [][\A id \in { i \in Ids : UnitStepOf(i) } :
            \A other \in Ids \ {id} :
                /\ store'[other] = store[other]
                /\ bg'[other] = bg[other]
                /\ engineOut'[other] = engineOut[other]
                /\ notified'[other] = notified[other]]_vars
    /\ [][\A id \in Created :
            /\ store'[id] # NoJob
            /\ store'[id].id = store[id].id
            /\ store'[id].inputs = store[id].inputs
            /\ store'[id].created_at = store[id].created_at]_vars
    /\ [](\A id \in Created :
            /\ store[id].id = id
            /\ validate_crew_inputs(store[id].inputs)
            /\ store[id].created_at # NoTime
            /\ store[id].completed_at # NoTime => store[id].completed_at > store[id].created_at)

C21_Witness ==
    /\ bg[1] = "notify" /\ store[1].status = "completed"
    /\ bg[2] = "engine" /\ store[2].status = "running"
    /\ store[1].id = 1 /\ store[2].id = 2
    /\ store[1].created_at = store[2].created_at

\* the step in which thread t runs basicConfig
Configures(t) ==
    caller[t].pc = "configuring" /\ caller'[t].pc = "idle" /\ root' # root

\* a step of configure_logging or get_logger in thread t that reads the flag
ReadsFlag(t) ==
    /\ caller[t].pc \in {"idle", "called"}
    /\ logEvent'.thread = t
    /\ ~(caller[t].pc = "idle" /\ logEvent'.op = "set_debug_mode")

====
